---- MODULE Spec2Model ----
(***************************************************************************)
(* Model of berry_mill/localrepos.py: Repodata (merge, to_json) and        *)
(* DebianRepofind (_parse_repo, _parse_repofile, get_repos).               *)
(*                                                                         *)
(* A Python str is a sequence of one-character strings, so that strip,     *)
(* split, startswith, replace, lower and sorted are computed as Python     *)
(* computes them.  Repodata.type is kept as an atomic string: the code     *)
(* only assigns it and compares it with "".                                *)
(***************************************************************************)
EXTENDS Integers, Sequences, FiniteSets, TLC

(***************************************************************************)
(* Bounds of the model.                                                    *)
(***************************************************************************)
\* raw lines read over one run of get_repos, all files together
MaxLines == 3
\* files get_repos opens (sources.list and the *.list files)
MaxFiles == 2
\* records of one url group in the stand-alone fold of Repodata.merge
MaxGroup == 3

(***************************************************************************)
(* Python str primitives.                                                  *)
(***************************************************************************)
Whitespace == {" ", "\t", "\n"}

\* ord(c) of the characters the model's lines are made of
Ord(c) ==
    CASE c = "\t" -> 9   [] c = "\n" -> 10  [] c = " " -> 32  [] c = "#" -> 35
      [] c = "," -> 44   [] c = "." -> 46   [] c = "/" -> 47  [] c = "4" -> 52
      [] c = "6" -> 54   [] c = ":" -> 58   [] c = "=" -> 61  [] c = "A" -> 65
      [] c = "M" -> 77   [] c = "[" -> 91   [] c = "]" -> 93  [] c = "_" -> 95
      [] c = "a" -> 97   [] c = "b" -> 98   [] c = "c" -> 99  [] c = "d" -> 100
      [] c = "e" -> 101  [] c = "h" -> 104  [] c = "k" -> 107 [] c = "m" -> 109
      [] c = "n" -> 110  [] c = "p" -> 112  [] c = "r" -> 114 [] c = "s" -> 115
      [] c = "t" -> 116  [] c = "u" -> 117  [] c = "v" -> 118 [] c = "w" -> 119
      [] c = "x" -> 120  [] c = "y" -> 121

\* str.lower() on one character
LowerChar(c) == CASE c = "A" -> "a" [] c = "M" -> "m" [] OTHER -> c

MinOf(S) == CHOOSE x \in S : \A y \in S : x <= y
MaxOf(S) == CHOOSE x \in S : \A y \in S : x >= y

\* s[n:]
Drop(s, n) == SubSeq(s, n + 1, Len(s))

\* s.startswith(p)
StartsWith(s, p) == Len(s) >= Len(p) /\ SubSeq(s, 1, Len(p)) = p

\* c in s, for a one-character c
Contains(s, c) == \E i \in 1..Len(s) : s[i] = c

\* s.strip(chars), the characters to strip given as a set
StripSet(s, chars) ==
    LET keep == {i \in 1..Len(s) : s[i] \notin chars}
    IN  IF keep = {} THEN <<>> ELSE SubSeq(s, MinOf(keep), MaxOf(keep))

\* s.strip()
Strip(s) == StripSet(s, Whitespace)

\* s.find(sep): the first index at which sep occurs in s, 0 when it does not
Find(s, sep) ==
    LET at == {j \in 1..(Len(s) - Len(sep) + 1) : SubSeq(s, j, j + Len(sep) - 1) = sep}
    IN  IF at = {} THEN 0 ELSE MinOf(at)

\* s.split(sep)
RECURSIVE Split(_, _)
Split(s, sep) ==
    LET j == Find(s, sep)
    IN  IF j = 0 THEN <<s>>
        ELSE <<SubSeq(s, 1, j - 1)>> \o Split(Drop(s, j + Len(sep) - 1), sep)

\* s.split(sep, 1)
SplitOnce(s, sep) ==
    LET j == Find(s, sep)
    IN  IF j = 0 THEN <<s>>
        ELSE <<SubSeq(s, 1, j - 1), Drop(s, j + Len(sep) - 1)>>

\* sep.join(parts)
RECURSIVE Join(_, _)
Join(sep, parts) ==
    IF parts = <<>> THEN <<>>
    ELSE IF Len(parts) = 1 THEN parts[1]
    ELSE parts[1] \o sep \o Join(sep, Tail(parts))

\* s.replace(c, rep), for a one-character c
RECURSIVE Replace(_, _, _)
Replace(s, c, rep) ==
    IF s = <<>> THEN <<>>
    ELSE (IF s[1] = c THEN rep ELSE <<s[1]>>) \o Replace(Tail(s), c, rep)

\* s.lower()
Lower(s) == [i \in 1..Len(s) |-> LowerChar(s[i])]

\* re.compile("\\s+").sub(" ", s)
RECURSIVE AttrFix(_)
AttrFix(s) ==
    IF s = <<>> THEN <<>>
    ELSE IF s[Len(s)] \notin Whitespace
         THEN AttrFix(SubSeq(s, 1, Len(s) - 1)) \o <<s[Len(s)]>>
    ELSE IF Len(s) > 1 /\ s[Len(s) - 1] \in Whitespace
         THEN AttrFix(SubSeq(s, 1, Len(s) - 1))
    ELSE AttrFix(SubSeq(s, 1, Len(s) - 1)) \o <<" ">>

\* a < b on str: by code point at the first difference, a proper prefix first
StrLess(a, b) ==
    \E i \in 1..(Len(a) + 1) :
        /\ i <= Len(b)
        /\ SubSeq(a, 1, i - 1) = SubSeq(b, 1, i - 1)
        /\ (i = Len(a) + 1 \/ Ord(a[i]) < Ord(b[i]))

\* sorted(S) of a set of str
RECURSIVE SortedSet(_)
SortedSet(S) ==
    IF S = {} THEN <<>>
    ELSE LET m == CHOOSE x \in S : \A y \in S \ {x} : StrLess(x, y)
         IN  <<m>> \o SortedSet(S \ {m})

Range(s) == {s[i] : i \in 1..Len(s)}

(***************************************************************************)
(* Repodata.                                                               *)
(***************************************************************************)
\* {} and dict.update
EmptyDict == [k \in {} |-> <<>>]
DictUpdate(d, e) ==
    [k \in (DOMAIN d) \cup (DOMAIN e) |-> IF k \in DOMAIN e THEN e[k] ELSE d[k]]
\* d[key] = value
DictSet(d, key, value) ==
    [k \in (DOMAIN d) \cup {key} |-> IF k = key THEN value ELSE d[k]]
\* d.get(key, default)
DictGet(d, key, default) == IF key \in DOMAIN d THEN d[key] ELSE default

\* Repodata.__init__ with trusted initialised to True
RepodataTrusted ==
    [type |-> "", components |-> <<>>, url |-> <<>>, trusted |-> TRUE,
     name |-> <<>>, attrs |-> EmptyDict, is_flat |-> FALSE]

\* Repodata.__init__
Repodata ==
    [type |-> "", components |-> <<>>, url |-> <<>>, trusted |-> FALSE,
     name |-> <<>>, attrs |-> EmptyDict, is_flat |-> FALSE]

\* Repodata.is_valid
is_valid(r) == r.type # "" /\ r.url # <<>> /\ r.name # <<>>

\* merge, line 46, without the sort and the set
MergedComponentsConcat(self, repo) == self.components \o repo.components

\* merge, line 46: tuple(sorted(set(list(self.components) + list(repo.components))))
MergedComponents(self, repo) ==
    SortedSet(Range(self.components \o repo.components))

\* merge, lines 47-48, with the test dropped
MergedTrustedKept(self, repo) == self.trusted

\* merge, lines 47-48: if not repo.trusted: self.trusted = False
MergedTrusted(self, repo) == IF ~repo.trusted THEN FALSE ELSE self.trusted

\* merge, line 49, with the receiver's keys winning
MergedAttrsFirstWins(self, repo) == DictUpdate(repo.attrs, self.attrs)

\* merge, line 49: self.attrs.update(repo.attrs)
MergedAttrs(self, repo) == DictUpdate(self.attrs, repo.attrs)

\* merge raises when the urls differ (lines 43-44)
MergeRaises(self, repo) == self.url # repo.url

\* Repodata.merge: self after the call, when it does not raise
merge(self, repo) ==
    [self EXCEPT !.components = MergedComponents(self, repo),
                 !.trusted = MergedTrusted(self, repo),
                 !.attrs = MergedAttrs(self, repo)]

ArchKey == <<"a", "r", "c", "h">>
DefaultArch == <<"a", "m", "d", "6", "4">>

\* to_json, line 63: ",".join(self.components) or "/"
RenderComponents(r) ==
    LET joined == Join(<<",">>, r.components)
    IN  IF joined = <<>> THEN <<"/">> ELSE joined

\* Repodata.to_json: data[arch][self.name] for every arch
to_json(r) ==
    LET archs == Range(Split(DictGet(r.attrs, ArchKey, DefaultArch), <<",">>))
    IN  [a \in archs |->
            [n \in {r.name} |->
                [url |-> r.url, type |-> r.type, name |-> r.name,
                 components |-> RenderComponents(r)]]]

(***************************************************************************)
(* DebianRepofind._parse_repo.  A call either returns a Repodata or        *)
(* raises: raised is "none", "Exception" (line 114) or "IndexError" (line  *)
(* 103, kw[1] of a one-element list).                                      *)
(***************************************************************************)
Returns(r) == [raised |-> "none", r |-> r]
Raises(kind, r) == [raised |-> kind, r |-> r]

DebPrefix == <<"d", "e", "b", " ">>

\* lines 101-103: the loop over the attribute tokens, from token i on
RECURSIVE SetAttrs(_, _, _)
SetAttrs(attrs, tokens, i) ==
    IF i > Len(tokens) THEN [raised |-> "none", attrs |-> attrs]
    ELSE LET kw == SplitOnce(tokens[i], <<"=">>)
         IN  IF Len(kw) < 2 THEN [raised |-> "IndexError", attrs |-> attrs]
             ELSE SetAttrs(DictSet(attrs, kw[1], kw[2]), tokens, i + 1)

\* line 100
HasAttrBlock(repodata) == StartsWith(repodata, <<"[">>) /\ Contains(repodata, "]")

\* line 101: the tokens of the bracketed block
AttrTokens(repodata) ==
    Split(AttrFix(Strip(Split(Drop(repodata, 1), <<"]">>)[1])), <<" ">>)

\* line 104
AfterAttrBlock(repodata) == Strip(Split(repodata, <<"]">>)[2])

\* line 110: the name of a flat repository
FlatName(url) ==
    LET tail == Split(url, <<":", "/", "/">>)
        path == tail[Len(tail)]
        joined == Join(<<"_">>, Split(path, <<"/">>))
    IN  Replace(StripSet(Lower(Replace(joined, ".", <<"_">>)), {"_"}), ":", <<>>)

\* lines 108-116
NameAndComponents(r, repodata) ==
    IF repodata = <<"/">>
    THEN Returns([r EXCEPT !.is_flat = TRUE, !.name = FlatName(r.url)])
    ELSE LET nc == Split(repodata, <<" ">>)
         IN  IF Len(nc) < 2 THEN Raises("Exception", r)
             ELSE Returns([r EXCEPT !.name = nc[1], !.components = Tail(nc)])

\* lines 106-118, from the text that follows the attribute block
UrlAndRest(r, repodata) ==
    LET url == Split(repodata, <<" ">>)[1]
    IN  NameAndComponents([r EXCEPT !.url = url], Strip(Drop(repodata, Len(url))))

\* DebianRepofind._parse_repo
_parse_repo(repodata) ==
    IF ~StartsWith(repodata, DebPrefix) THEN Returns(Repodata)
    ELSE LET r == [Repodata EXCEPT !.type = "apt-deb"]
             rest == Strip(Drop(repodata, 3))
         IN  IF HasAttrBlock(rest)
             THEN LET a == SetAttrs(r.attrs, AttrTokens(rest), 1)
                  IN  IF a.raised # "none"
                      THEN Raises(a.raised, [r EXCEPT !.attrs = a.attrs])
                      ELSE UrlAndRest([r EXCEPT !.attrs = a.attrs], AfterAttrBlock(rest))
             ELSE UrlAndRest(r, rest)

(***************************************************************************)
(* The raw lines the files may hold, as readlines() returns them.          *)
(***************************************************************************)
\* deb s://A.b/ n u m\n
LineStdUM ==
    <<"d", "e", "b", " ", "s", ":", "/", "/", "A", ".", "b", "/", " ", "n",
     " ", "u", " ", "m", "\n">>
\* deb s://A.b/ /
LineFlat ==
    <<"d", "e", "b", " ", "s", ":", "/", "/", "A", ".", "b", "/", " ", "/">>
\* deb [arch=x,y] s://A.b/ k m r
LineArchXY ==
    <<"d", "e", "b", " ", "[", "a", "r", "c", "h", "=", "x", ",", "y", "]",
     " ", "s", ":", "/", "/", "A", ".", "b", "/", " ", "k", " ", "m", " ",
     "r">>
\* deb [arch=y k=v] s://A.b/ n M
LineArchY ==
    <<"d", "e", "b", " ", "[", "a", "r", "c", "h", "=", "y", " ", "k", "=",
     "v", "]", " ", "s", ":", "/", "/", "A", ".", "b", "/", " ", "n", " ",
     "M">>
\* deb h://c:6 k u u
LineDup ==
    <<"d", "e", "b", " ", "h", ":", "/", "/", "c", ":", "6", " ", "k", " ",
     "u", " ", "u">>
\* deb h://c:6
LineNoName ==
    <<"d", "e", "b", " ", "h", ":", "/", "/", "c", ":", "6">>
\* deb [] h://c:6 n m
LineEmptyAttrs ==
    <<"d", "e", "b", " ", "[", "]", " ", "h", ":", "/", "/", "c", ":", "6",
     " ", "n", " ", "m">>
\* # deb x
LineComment ==
    <<"#", " ", "d", "e", "b", " ", "x">>
\* rpm x
LineOther ==
    <<"r", "p", "m", " ", "x">>
\* \n
LineBlank ==
    <<"\n">>
\*   deb [k=w  a=b] h://c:6 /]\n
LineFlatBracket ==
    <<" ", " ", "d", "e", "b", " ", "[", "k", "=", "w", " ", " ", "a", "=",
     "b", "]", " ", "h", ":", "/", "/", "c", ":", "6", " ", "/", "]", "\n">>
\* deb [k=w] h://c:6 n
LineNoComp ==
    <<"d", "e", "b", " ", "[", "k", "=", "w", "]", " ", "h", ":", "/", "/",
     "c", ":", "6", " ", "n">>
Lines ==
    {LineStdUM, LineFlat, LineArchXY,
     LineArchY, LineDup, LineNoName, LineEmptyAttrs,
     LineComment, LineOther, LineBlank, LineFlatBracket,
     LineNoComp}

(***************************************************************************)
(* DebianRepofind.get_repos and _parse_repofile as a state machine.        *)
(*                                                                         *)
(*   pc        where the call is: "files" (the loop of line 153, between   *)
(*             two files), "lines" (the loop of line 127), "flatten" (the  *)
(*             loop of line 160), "returned", "serialised" (the caller has *)
(*             called to_json on every record), "failed" (an exception     *)
(*             left get_repos)                                             *)
(*   nfiles    the files opened so far                                     *)
(*   filerepos the list repos of _parse_repofile                           *)
(*   ridx      the dict of line 150, in insertion order: a sequence of     *)
(*             [key, val]                                                  *)
(*   gi        the position of the loop of line 160 in ridx.values()       *)
(*   repos     the list repos of get_repos                                 *)
(*   raised    the exception that left get_repos, "none" when none did     *)
(*   data      to_json of every returned record                            *)
(*   log       history: every raw line read, whether it was given to       *)
(*             _parse_repo and what the call returned or raised            *)
(*   members, todo, acc, order                                             *)
(*             the loop of lines 163-168 alone, on any records of one url  *)
(***************************************************************************)
VARIABLES pc, nfiles, filerepos, ridx, gi, repos, raised, data, log,
          members, todo, acc, order

vars == <<pc, nfiles, filerepos, ridx, gi, repos, raised, data, log,
          members, todo, acc, order>>

foldvars == <<members, todo, acc, order>>

\* lines 155-157 with a new url put in front of the others
AddToIndexFront(idx, r) ==
    IF \E i \in 1..Len(idx) : idx[i].key = r.url /\ idx[i].val # <<>>
    THEN [i \in 1..Len(idx) |->
            IF idx[i].key = r.url
            THEN [idx[i] EXCEPT !.val = Append(@, r)] ELSE idx[i]]
    ELSE <<[key |-> r.url, val |-> <<r>>]>> \o idx

\* lines 155-157: if not ridx.get(r.url): ridx[r.url] = []; ridx[r.url].append(r)
AddToIndex(idx, r) ==
    IF \E i \in 1..Len(idx) : idx[i].key = r.url /\ idx[i].val # <<>>
    THEN [i \in 1..Len(idx) |->
            IF idx[i].key = r.url
            THEN [idx[i] EXCEPT !.val = Append(@, r)] ELSE idx[i]]
    ELSE IF \E i \in 1..Len(idx) : idx[i].key = r.url
    THEN [i \in 1..Len(idx) |->
            IF idx[i].key = r.url THEN [idx[i] EXCEPT !.val = <<r>>] ELSE idx[i]]
    ELSE Append(idx, [key |-> r.url, val |-> <<r>>])

\* lines 154-157: the records of one file, from record i on
RECURSIVE IndexFile(_, _, _)
IndexFile(idx, rs, i) ==
    IF i > Len(rs) THEN idx ELSE IndexFile(AddToIndex(idx, rs[i]), rs, i + 1)

\* lines 164-168: r after the loop over v, from v[i] on
RECURSIVE FoldFrom(_, _, _)
FoldFrom(r, v, i) ==
    IF i > Len(v) THEN r ELSE FoldFrom(merge(r, v[i]), v, i + 1)

\* lines 164-168: whether a merge of the loop raises
FoldRaises(v) == \E i \in 2..Len(v) : MergeRaises(v[1], v[i])

\* lines 161-172 with a group of one record merged as the others are
FlattenedAlwaysMerged(v) ==
    IF v = <<>> THEN <<>> ELSE <<FoldFrom(merge(v[1], v[1]), v, 2)>>

\* lines 161-172: what one group adds to repos
Flattened(v) ==
    IF v = <<>> THEN <<>>
    ELSE IF Len(v) > 1 THEN <<FoldFrom(v[1], v, 2)>>
    ELSE v

FoldIdle == members = <<>> /\ todo = {} /\ acc = <<>> /\ order = <<>>

Init ==
    /\ pc = "files"
    /\ nfiles = 0
    /\ filerepos = <<>>
    /\ ridx = <<>>
    /\ gi = 0
    /\ repos = <<>>
    /\ raised = "none"
    /\ data = <<>>
    /\ log = <<>>
    /\ FoldIdle

\* line 153 and line 126: the next file is opened
OpenFile ==
    /\ pc = "files"
    /\ nfiles < MaxFiles
    /\ pc' = "lines"
    /\ nfiles' = nfiles + 1
    /\ filerepos' = <<>>
    /\ UNCHANGED <<ridx, gi, repos, raised, data, log, foldvars>>

\* line 133 on every raw line of Lines: self._parse_repo(l), l = l.strip()
Parsed == [raw \in Lines |-> _parse_repo(Strip(raw))]

\* lines 127-135: one line of the open file
ReadLine ==
    /\ pc = "lines"
    /\ Len(log) < MaxLines
    /\ \E raw \in Lines :
        LET l == Strip(raw)
            fed == ~(l = <<>> \/ StartsWith(l, <<"#">>))
            o == IF fed THEN Parsed[raw] ELSE Returns(Repodata)
        IN  /\ log' = Append(log, [src |-> nfiles, raw |-> raw, fed |-> fed, out |-> o])
            /\ IF o.raised # "none"
               THEN /\ pc' = "failed"
                    /\ raised' = o.raised
                    /\ UNCHANGED filerepos
               ELSE /\ filerepos' = IF fed /\ is_valid(o.r)
                                    THEN Append(filerepos, o.r) ELSE filerepos
                    /\ UNCHANGED <<pc, raised>>
    /\ UNCHANGED <<nfiles, ridx, gi, repos, data, foldvars>>

\* line 137 and lines 154-157: the file's records enter ridx
CloseFile ==
    /\ pc = "lines"
    /\ pc' = "files"
    /\ ridx' = IndexFile(ridx, filerepos, 1)
    /\ filerepos' = <<>>
    /\ UNCHANGED <<nfiles, gi, repos, raised, data, log, foldvars>>

\* line 160: the last file is done (sources.list is always one of them)
StartFlatten ==
    /\ pc = "files"
    /\ nfiles >= 1
    /\ pc' = "flatten"
    /\ gi' = 1
    /\ UNCHANGED <<nfiles, filerepos, ridx, repos, raised, data, log, foldvars>>

\* lines 160-172: one group of ridx.values()
FlattenGroup ==
    /\ pc = "flatten"
    /\ gi <= Len(ridx)
    /\ IF FoldRaises(ridx[gi].val)
       THEN pc' = "failed" /\ raised' = "Exception" /\ UNCHANGED <<gi, repos>>
       ELSE /\ repos' = repos \o Flattened(ridx[gi].val)
            /\ gi' = gi + 1
            /\ UNCHANGED <<pc, raised>>
    /\ UNCHANGED <<nfiles, filerepos, ridx, data, log, foldvars>>

\* line 174
Return ==
    /\ pc = "flatten"
    /\ gi > Len(ridx)
    /\ pc' = "returned"
    /\ UNCHANGED <<nfiles, filerepos, ridx, gi, repos, raised, data, log, foldvars>>

\* the caller serialises every returned record (to_json, lines 51-66)
Serialise ==
    /\ pc = "returned"
    /\ pc' = "serialised"
    /\ data' = [i \in 1..Len(repos) |-> to_json(repos[i])]
    /\ UNCHANGED <<nfiles, filerepos, ridx, gi, repos, raised, log, foldvars>>

Next ==
    \/ OpenFile
    \/ ReadLine
    \/ CloseFile
    \/ StartFlatten
    \/ FlattenGroup
    \/ Return
    \/ Serialise

Spec == Init /\ [][Next]_vars

(***************************************************************************)
(* Repodata.merge folded over any records of one url, in any order: the    *)
(* loop of lines 163-168 with the order of v left free.  trusted is a      *)
(* public field, so the members carry either value.                        *)
(***************************************************************************)
FoldUrl == <<"s", ":", "/", "/", "A", ".", "b", "/">>

FoldMembers ==
    {[type |-> "apt-deb", components |-> c, url |-> FoldUrl, trusted |-> t,
      name |-> <<"n">>, attrs |-> EmptyDict, is_flat |-> FALSE] :
        c \in {<<<<"u">>, <<"m">>>>, <<<<"m">>, <<"r">>>>},
        t \in BOOLEAN}

InitFold ==
    /\ pc = "fold"
    /\ nfiles = 0
    /\ filerepos = <<>>
    /\ ridx = <<>>
    /\ gi = 0
    /\ repos = <<>>
    /\ raised = "none"
    /\ data = <<>>
    /\ log = <<>>
    /\ \E n \in 1..MaxGroup : members \in [1..n -> FoldMembers]
    /\ todo = DOMAIN members
    /\ acc = <<>>
    /\ order = <<>>

\* lines 165-166: r is None, r = _r
FoldFirst ==
    /\ pc = "fold"
    /\ acc = <<>>
    /\ \E i \in todo :
        /\ acc' = <<members[i]>>
        /\ todo' = todo \ {i}
        /\ order' = Append(order, i)
    /\ UNCHANGED <<pc, nfiles, filerepos, ridx, gi, repos, raised, data, log, members>>

\* lines 167-168: r.merge(_r)
FoldMerge ==
    /\ pc = "fold"
    /\ acc # <<>>
    /\ \E i \in todo :
        /\ ~MergeRaises(acc[1], members[i])
        /\ acc' = <<merge(acc[1], members[i])>>
        /\ todo' = todo \ {i}
        /\ order' = Append(order, i)
    /\ UNCHANGED <<pc, nfiles, filerepos, ridx, gi, repos, raised, data, log, members>>

NextFold == FoldFirst \/ FoldMerge

SpecFold == InitFold /\ [][NextFold]_vars

(***************************************************************************)
(* What the properties below talk about.                                   *)
(***************************************************************************)
Returned == pc \in {"returned", "serialised"}

IsValidEntry(e) == e.fed /\ e.out.raised = "none" /\ is_valid(e.out.r)

\* the log entries of the valid records, in source-then-line order
ValidLog == SelectSeq(log, IsValidEntry)

\* the valid records _parse_repo returned, in source-then-line order
ValidRecords == [i \in 1..Len(ValidLog) |-> ValidLog[i].out.r]

\* the positions in vr (the valid records) of the declarations of url
DeclsOf(vr, url) == {j \in 1..Len(vr) : vr[j].url = url}

\* the distinct elements of s in the order of their first occurrence
RECURSIVE FirstSeen(_)
FirstSeen(s) ==
    IF s = <<>> THEN <<>>
    ELSE LET p == FirstSeen(SubSeq(s, 1, Len(s) - 1))
         IN  IF s[Len(s)] \in Range(p) THEN p ELSE Append(p, s[Len(s)])

\* c is in strictly ascending order (so it has no duplicate)
Ascending(c) == \A a, b \in 1..Len(c) : a < b => StrLess(c[a], c[b])

\* c is in ascending order, duplicates allowed
NonDescending(c) == \A a, b \in 1..Len(c) : a < b => ~StrLess(c[b], c[a])

\* s and t hold the same elements the same number of times
SameBag(s, t) ==
    /\ Len(s) = Len(t)
    /\ \A x \in Range(s) \cup Range(t) :
        Cardinality({i \in 1..Len(s) : s[i] = x})
            = Cardinality({i \in 1..Len(t) : t[i] = x})

\* the whitespace-delimited tokens of s
RECURSIVE WsTokens(_)
WsTokens(s) ==
    LET t == Strip(s)
        ws == {i \in 1..Len(t) : t[i] \in Whitespace}
    IN  IF t = <<>> THEN <<>>
        ELSE IF ws = {} THEN <<t>>
        ELSE <<SubSeq(t, 1, MinOf(ws) - 1)>> \o WsTokens(Drop(t, MinOf(ws)))

\* the tokens a declaration line is left with once `deb`, the optional
\* attribute block and the url are removed
TokensAfterUrl(line) ==
    LET afterDeb == Strip(Drop(Strip(line), 3))
        afterBlock == IF StartsWith(afterDeb, <<"[">>) /\ Contains(afterDeb, "]")
                      THEN Drop(afterDeb, Find(afterDeb, <<"]">>))
                      ELSE afterDeb
        toks == WsTokens(afterBlock)
    IN  IF toks = <<>> THEN <<>> ELSE Tail(toks)

\* a non-comment `deb ` line that is not flat and has fewer than 2 tokens
\* after the attribute block and the url
TooFewTokens(line) ==
    /\ Strip(line) # <<>>
    /\ ~StartsWith(Strip(line), <<"#">>)
    /\ StartsWith(Strip(line), DebPrefix)
    /\ TokensAfterUrl(line) # <<<<"/">>>>
    /\ Len(TokensAfterUrl(line)) < 2

\* the lines of the model with too few tokens
TooFewTokensLines == {line \in Lines : TooFewTokens(line)}

(***************************************************************************)
(* C1                                                                      *)
(***************************************************************************)
\* C1: when get_repos returns, the urls of the returned records are the
\* distinct urls of the valid parsed records, each once, in the order in
\* which they were first seen (source order, then line order).
C1_OnePerUrlFirstSeen ==
    Returned =>
        LET vr == ValidRecords
        IN  [i \in 1..Len(repos) |-> repos[i].url]
                = FirstSeen([j \in 1..Len(vr) |-> vr[j].url])

\* C1 witness: a run over two files returned two records from three valid
\* lines, the first url declared again in the second file after another url.
C1_Witness ==
    /\ Returned
    /\ Len(repos) = 2
    /\ LET vl == ValidLog
       IN  /\ Len(vl) = 3
           /\ vl[1].out.r.url = vl[3].out.r.url
           /\ vl[1].out.r.url # vl[2].out.r.url
           /\ vl[1].src # vl[3].src
           /\ repos[1].url = vl[1].out.r.url

(***************************************************************************)
(* C2 (under SpecFold)                                                     *)
(***************************************************************************)
\* C2: folding records of one url with merge, in any order, leaves an
\* accumulator whose trusted is the logical AND of the trusted values of the
\* members folded so far, hence of all members once the fold is over.
C2_TrustedIsAnd ==
    acc # <<>> =>
        (acc[1].trusted <=> \A i \in Range(order) : members[i].trusted)

\* C2 witness: three members, exactly one untrusted, folded first although
\* it is not the first member; the fold is over and the result is untrusted.
C2_Witness ==
    /\ pc = "fold"
    /\ todo = {}
    /\ Len(members) = 3
    /\ Cardinality({i \in 1..3 : ~members[i].trusted}) = 1
    /\ ~members[order[1]].trusted
    /\ order[1] # 1
    /\ ~acc[1].trusted

(***************************************************************************)
(* C3                                                                      *)
(***************************************************************************)
\* C3: the components of a record returned for a url with two or more
\* declarations are the union of the components of all the declarations,
\* without duplicate, in ascending order of str.
C3_ComponentsSortedUnion ==
    Returned =>
        LET vr == ValidRecords
        IN  \A i \in 1..Len(repos) :
                LET d == DeclsOf(vr, repos[i].url)
                IN  Cardinality(d) >= 2 =>
                        /\ Range(repos[i].components)
                            = UNION {Range(vr[j].components) : j \in d}
                        /\ Ascending(repos[i].components)

\* C3 witness: a returned record merged from declarations whose component
\* lists overlap, one of them not in ascending order.
C3_Witness ==
    /\ Returned
    /\ LET vr == ValidRecords
       IN  \E i \in 1..Len(repos) :
            /\ Len(repos[i].components) >= 3
            /\ \E j, k \in DeclsOf(vr, repos[i].url) :
                /\ j # k
                /\ ~NonDescending(vr[j].components)
                /\ Range(vr[j].components) \cap Range(vr[k].components) # {}

(***************************************************************************)
(* C4                                                                      *)
(***************************************************************************)
\* C4 as stated: a record _parse_repo produces from a recognised line has
\* trusted = true, and a returned record has trusted = true unless one of
\* the declarations merged into it is untrusted.
C4_TrustedByDefault ==
    /\ \A i \in 1..Len(log) :
        (log[i].fed /\ log[i].out.raised = "none" /\ log[i].out.r.type # "")
            => log[i].out.r.trusted
    /\ Returned =>
        LET vr == ValidRecords
        IN  \A i \in 1..Len(repos) :
                \/ repos[i].trusted
                \/ \E j \in DeclsOf(vr, repos[i].url) :
                    /\ j # MinOf(DeclsOf(vr, repos[i].url))
                    /\ ~vr[j].trusted

\* C4 amended: a record _parse_repo produces from a recognised line has
\* trusted = false, and every returned record has trusted = false.
C4_NeverTrusted ==
    /\ \A i \in 1..Len(log) :
        (log[i].fed /\ log[i].out.raised = "none" /\ log[i].out.r.type # "")
            => ~log[i].out.r.trusted
    /\ Returned => \A i \in 1..Len(repos) : ~repos[i].trusted

\* C4 witness: get_repos returned a record passed through from one line and
\* a record merged from two.
C4_Witness ==
    /\ Returned
    /\ LET vr == ValidRecords
       IN  \E i, k \in 1..Len(repos) :
            /\ Cardinality(DeclsOf(vr, repos[i].url)) = 1
            /\ Cardinality(DeclsOf(vr, repos[k].url)) = 2

(***************************************************************************)
(* C5                                                                      *)
(***************************************************************************)
\* C5: a non-comment `deb ` line that is not flat and keeps fewer than 2
\* tokens after the attribute block and the url makes _parse_repo raise, and
\* the exception leaves get_repos: nothing is read after it and no list is
\* returned, whatever was read before.
C5_TooFewTokensIsFatal ==
    \A i \in 1..Len(log) :
        log[i].raw \in TooFewTokensLines =>
            /\ log[i].fed
            /\ log[i].out.raised # "none"
            /\ i = Len(log)
            /\ pc = "failed"
            /\ raised = log[i].out.raised

(***************************************************************************)
(* C6                                                                      *)
(***************************************************************************)
\* C6: _parse_repo either returns a record or fails with the exception of
\* line 114 (malformed declaration), and with no other kind of error; a
\* bracketed block holding a token without `=` fails with that exception.
C6_OneFailureKind ==
    \A i \in 1..Len(log) :
        log[i].fed => log[i].out.raised \in {"none", "Exception"}

(***************************************************************************)
(* C7                                                                      *)
(***************************************************************************)
\* C7: to_json of any returned record renders, under every architecture of
\* attrs["arch"] (amd64 when absent), components as its components joined
\* by commas in ascending order, or as "/" when there are none.
C7_RenderedAscending ==
    pc = "serialised" =>
        \A i \in 1..Len(repos) :
            \A a \in Range(WsTokens(Replace(
                        DictGet(repos[i].attrs, ArchKey, DefaultArch), ",", <<" ">>))) :
                /\ a \in DOMAIN data[i]
                /\ LET shown == data[i][a][repos[i].name].components
                   IN  IF repos[i].components = <<>> THEN shown = <<"/">>
                       ELSE /\ SameBag(Split(shown, <<",">>), repos[i].components)
                            /\ NonDescending(Split(shown, <<",">>))

(***************************************************************************)
(* C8                                                                      *)
(***************************************************************************)
\* C8: the attrs of the record returned for a url with several declarations
\* hold every key of any of the declarations, each with the value of the
\* last declaration, in source-then-line order, that carries the key.
C8_AttrsLastWriteWins ==
    Returned =>
        LET vr == ValidRecords
        IN  \A i \in 1..Len(repos) :
                LET d == DeclsOf(vr, repos[i].url)
                IN  Cardinality(d) >= 2 =>
                        /\ DOMAIN repos[i].attrs = UNION {DOMAIN vr[j].attrs : j \in d}
                        /\ \A k \in DOMAIN repos[i].attrs :
                            repos[i].attrs[k]
                                = vr[MaxOf({j \in d : k \in DOMAIN vr[j].attrs})].attrs[k]

\* C8 witness: a url declared by three lines of two files; one key is given
\* two different values and the later one is returned, another key is set
\* only by a declaration that is not the last and is returned too.
C8_Witness ==
    /\ Returned
    /\ LET vl == ValidLog
           vr == ValidRecords
       IN  \E i \in 1..Len(repos) :
            LET d == DeclsOf(vr, repos[i].url)
            IN  /\ Cardinality(d) = 3
                /\ \E j, k \in d : vl[j].src # vl[k].src
                /\ \E key \in DOMAIN repos[i].attrs : \E j, k \in d :
                    /\ j < k
                    /\ key \in DOMAIN vr[j].attrs
                    /\ key \in DOMAIN vr[k].attrs
                    /\ vr[j].attrs[key] # vr[k].attrs[key]
                    /\ repos[i].attrs[key] = vr[k].attrs[key]
                /\ \E key \in DOMAIN repos[i].attrs :
                    key \notin DOMAIN vr[MaxOf(d)].attrs

(***************************************************************************)
(* C9                                                                      *)
(***************************************************************************)
\* C9: a url declared by exactly one valid line is returned as exactly one
\* record, equal in every field to the record _parse_repo returned for the
\* line (components in the declared order).
C9_SinglePassesThrough ==
    Returned =>
        LET vr == ValidRecords
        IN  \A j \in 1..Len(vr) :
                DeclsOf(vr, vr[j].url) = {j} =>
                    /\ \E i \in 1..Len(repos) : repos[i] = vr[j]
                    /\ \A i \in 1..Len(repos) :
                        repos[i].url = vr[j].url => repos[i] = vr[j]

\* C9 witness: a url declared once, with components that are not in
\* ascending order, is returned next to a url declared twice.
C9_Witness ==
    /\ Returned
    /\ Len(repos) = 2
    /\ LET vr == ValidRecords
       IN  \E j, k \in 1..Len(vr) :
            /\ DeclsOf(vr, vr[j].url) = {j}
            /\ ~NonDescending(vr[j].components)
            /\ Cardinality(DeclsOf(vr, vr[k].url)) = 2

(***************************************************************************)
(* C10                                                                     *)
(***************************************************************************)
\* C10: a returned record has is_flat = true exactly when it has no
\* component, also when its url is declared both flat and standard.
C10_FlatIffNoComponents ==
    Returned =>
        \A i \in 1..Len(repos) :
            repos[i].is_flat <=> repos[i].components = <<>>

====
